---- MODULE Spec2Model ----
(***************************************************************************)
(* Model of dsmo7206/100_prisoners (src/src/main.rs).                      *)
(*                                                                         *)
(* Spec     one trial (run_all) in steps of one loop iteration of          *)
(*          run_single, for either strategy and any pick budget.           *)
(* SimSpec  the experiment driver (run_sim): NUM_TRIES parallel closures,  *)
(*          each running one trial on data of its own and then adding to   *)
(*          the shared atomic counter.                                     *)
(*                                                                         *)
(* A Vec<usize> is a sequence; Rust's index i is position i + 1.           *)
(* An Option<T> is << >> (None) or <<v>> (Some(v)).                        *)
(***************************************************************************)
EXTENDS Integers, Sequences, FiniteSets, TLC

\* The program's constants, scaled down (main.rs:5-7 sets 1000000, 100, 50).
NUM_TRIES == 2
NUM_BOXES == 3
\* The pick budgets explored: NUM_PICKS ranges over 1..MaxPicks.
MaxPicks == 4

VARIABLES
    S,            \* the strategy the experiment is instantiated with
    NUM_PICKS,    \* the pick budget of the build
    pc,           \* position of the trial: run_all / run_single
    boxes,        \* run_all's boxes
    index,        \* the searcher run_all is at
    self,         \* run_single's strategy value
    last_inside,  \* run_single's last_inside
    pick,         \* iterations of run_single's loop started so far
    opened,       \* history: the box indices this searcher opened, in order
    ret,          \* run_single's return value (None while it runs)
    rets,         \* history: what run_single returned for searchers 0, 1, ...
    result,       \* run_all's return value (None while it runs)
    trial,        \* run_sim: per closure, where it is and what run_all gave
    success,      \* run_sim's atomic counter
    sim           \* run_sim itself: running, or returned with a count

trialVars == <<pc, boxes, index, self, last_inside, pick, opened, ret, rets, result>>
simVars == <<trial, success, sim>>
vars == <<S, NUM_PICKS, pc, boxes, index, self, last_inside, pick, opened, ret,
          rets, result, trial, success, sim>>

None == << >>
Some(v) == <<v>>
At(v, i) == v[i + 1]
InBounds(v, i) == i >= 0 /\ i < Len(v)
Strategies == {"Random", "Loop"}

----------------------------------------------------------------------------
\* make_boxes

\* Variant: the range starts at one.
Collect_from_one(n) == [i \in 1..n |-> i]

\* (0..n).collect()
Collect(n) == [i \in 1..n |-> i - 1]

\* slice::swap
Swap(v, a, b) == [v EXCEPT ![a + 1] = At(v, b), ![b + 1] = At(v, a)]

\* The draws a shuffle of n elements takes from the generator: for each
\* i in 1..n-1 an index in 0..=i.
ShuffleDraws(n) == {c \in [1..(n - 1) -> 0..(n - 1)] : \A i \in 1..(n - 1) : c[i] <= i}

\* SliceRandom::shuffle: for i in (1..len).rev() { swap(i, draw in 0..=i) }
RECURSIVE shuffle(_, _, _)
shuffle(v, i, c) == IF i < 1 THEN v ELSE shuffle(Swap(v, i, c[i]), i - 1, c)

\* Every value make_boxes can return.
make_boxes == {shuffle(Collect(NUM_BOXES), NUM_BOXES - 1, c) : c \in ShuffleDraws(NUM_BOXES)}

----------------------------------------------------------------------------
\* Strategies

\* What S::new takes from the random source: RandomStrategy::new calls
\* make_boxes, LoopStrategy::new draws nothing.
Draws(s) == IF s = "Random" THEN make_boxes ELSE {<< >>}

RandomStrategy_new(q) == [try_queue |-> q]

LoopStrategy_new(i) == [index |-> i]

new(s, i, q) == IF s = "Random" THEN RandomStrategy_new(q) ELSE LoopStrategy_new(i)

\* Variant: reads the back of the queue without removing it.
RandomStrategy_next_index_peek(st, last) ==
    IF st.try_queue = << >>
    THEN [panic |-> "unwrap", ret |-> 0, self |-> st]
    ELSE [panic |-> "none", ret |-> st.try_queue[Len(st.try_queue)], self |-> st]

\* Variant: removes two elements per call.
RandomStrategy_next_index_pop_twice(st, last) ==
    IF Len(st.try_queue) < 2
    THEN [panic |-> "unwrap", ret |-> 0, self |-> st]
    ELSE [panic |-> "none",
          ret |-> st.try_queue[Len(st.try_queue) - 1],
          self |-> [try_queue |-> SubSeq(st.try_queue, 1, Len(st.try_queue) - 2)]]

\* A call's outcome: panic is "none" or what panicked; ret the value
\* returned, self the strategy value afterwards.
\* self.try_queue.pop().unwrap()
RandomStrategy_next_index(st, last) ==
    IF st.try_queue = << >>
    THEN [panic |-> "unwrap", ret |-> 0, self |-> st]
    ELSE [panic |-> "none",
          ret |-> st.try_queue[Len(st.try_queue)],
          self |-> [try_queue |-> SubSeq(st.try_queue, 1, Len(st.try_queue) - 1)]]

\* Variant: ignores last_inside and always returns the searcher's own index.
LoopStrategy_next_index_own(st, last) ==
    [panic |-> "none", ret |-> st.index, self |-> st]

\* Variant: moves to the box after the one named inside the last box.
LoopStrategy_next_index_off_by_one(st, last) ==
    [panic |-> "none",
     ret |-> IF last # None THEN last[1] + 1 ELSE st.index,
     self |-> st]

\* match last_inside { Some(last_inside) => last_inside, None => self.index }
LoopStrategy_next_index(st, last) ==
    [panic |-> "none",
     ret |-> IF last # None THEN last[1] ELSE st.index,
     self |-> st]

next_index(s, st, last) ==
    IF s = "Random" THEN RandomStrategy_next_index(st, last)
    ELSE LoopStrategy_next_index(st, last)

----------------------------------------------------------------------------
\* run_single

\* Variant: compares what was found with the box opened, not with the searcher.
Iteration_compares_box(s, st, last, i, bx) ==
    LET r == next_index(s, st, last) IN
    IF r.panic # "none"
    THEN [panic |-> r.panic, found |-> FALSE, next_index |-> r.ret,
          self |-> st, last_inside |-> last]
    ELSE IF ~InBounds(bx, r.ret)
    THEN [panic |-> "bounds", found |-> FALSE, next_index |-> r.ret,
          self |-> r.self, last_inside |-> last]
    ELSE [panic |-> "none", found |-> (At(bx, r.ret) = r.ret), next_index |-> r.ret,
          self |-> r.self, last_inside |-> Some(At(bx, r.ret))]

\* One iteration of run_single's loop (main.rs:53-59): the outcome is a
\* panic, a return of true, or the next iteration's self and last_inside.
Iteration(s, st, last, i, bx) ==
    LET r == next_index(s, st, last) IN
    IF r.panic # "none"
    THEN [panic |-> r.panic, found |-> FALSE, next_index |-> r.ret,
          self |-> st, last_inside |-> last]
    ELSE IF ~InBounds(bx, r.ret)
    THEN [panic |-> "bounds", found |-> FALSE, next_index |-> r.ret,
          self |-> r.self, last_inside |-> last]
    ELSE [panic |-> "none", found |-> (At(bx, r.ret) = i), next_index |-> r.ret,
          self |-> r.self, last_inside |-> Some(At(bx, r.ret))]

\* Variant: for _ in 0..=p.
loop_continues_inclusive(k, p) == k <= p

\* for _ in 0..p: whether an iteration follows the k already started.
loop_continues(k, p) == k < p

\* Variant: no early return; the loop keeps a flag that every iteration
\* overwrites, and returns it at the end.
RECURSIVE run_single_from_flag(_, _, _, _, _, _, _)
run_single_from_flag(s, st, last, k, i, bx, p) ==
    IF ~loop_continues(k, p) THEN [panic |-> "none", ret |-> FALSE]
    ELSE LET it == Iteration(s, st, last, i, bx) IN
         IF it.panic # "none" THEN [panic |-> it.panic, ret |-> FALSE]
         ELSE IF ~loop_continues(k + 1, p) THEN [panic |-> "none", ret |-> it.found]
         ELSE run_single_from_flag(s, it.self, it.last_inside, k + 1, i, bx, p)

\* run_single's loop from iteration k on, with budget p.
RECURSIVE run_single_from(_, _, _, _, _, _, _)
run_single_from(s, st, last, k, i, bx, p) ==
    IF ~loop_continues(k, p) THEN [panic |-> "none", ret |-> FALSE]
    ELSE LET it == Iteration(s, st, last, i, bx) IN
         IF it.panic # "none" THEN [panic |-> it.panic, ret |-> FALSE]
         ELSE IF it.found THEN [panic |-> "none", ret |-> TRUE]
         ELSE run_single_from(s, it.self, it.last_inside, k + 1, i, bx, p)

\* run_single::<s>(i, bx) with budget p, S::new drawing q.
run_single(s, i, bx, p, q) == run_single_from(s, new(s, i, q), None, 0, i, bx, p)

\* Every outcome run_single can have, over the draws of S::new.
run_single_outcomes(s, i, bx, p) == {run_single(s, i, bx, p, q) : q \in Draws(s)}

----------------------------------------------------------------------------
\* run_all

\* Variant: Iterator::any's test, stopping at the first true.
all_stops_on_true(r) == r

\* Iterator::all: `if !f(x) { return false }`, and true once the range ends.
all_stops(r) == ~r

\* (i..NUM_BOXES).all(|index| run_single(index, &bx)): every outcome.
RECURSIVE all_from(_, _, _, _)
all_from(s, i, bx, p) ==
    IF i >= NUM_BOXES THEN {[panic |-> "none", ret |-> TRUE]}
    ELSE UNION {IF r.panic # "none" THEN {r}
                ELSE IF all_stops(r.ret) THEN {[panic |-> "none", ret |-> FALSE]}
                ELSE all_from(s, i + 1, bx, p)
                : r \in run_single_outcomes(s, i, bx, p)}

\* Every outcome run_all::<s>() can have.
run_all_outcomes(s, p) == UNION {all_from(s, 0, bx, p) : bx \in make_boxes}

----------------------------------------------------------------------------
\* One trial, step by step

\* The strategy value while no run_single is running.
NoStrategy(s) == IF s = "Random" THEN [try_queue |-> << >>] ELSE [index |-> 0]

Tasks == 1..NUM_TRIES

SimIdle ==
    /\ trial = [t \in Tasks |-> [pc |-> "pending", ok |-> FALSE]]
    /\ success = 0
    /\ sim = [pc |-> "for_each", ret |-> None]

TrialIdle ==
    /\ pc = "run_all"
    /\ boxes = << >>
    /\ index = 0
    /\ self = NoStrategy(S)
    /\ last_inside = None
    /\ pick = 0
    /\ opened = << >>
    /\ ret = None
    /\ rets = << >>
    /\ result = None

Init ==
    /\ S \in Strategies
    /\ NUM_PICKS \in 1..MaxPicks
    /\ TrialIdle
    /\ SimIdle

\* run_all: let boxes = make_boxes();
MakeBoxes ==
    /\ pc = "run_all"
    /\ \E b \in make_boxes : boxes' = b
    /\ index' = 0
    /\ pc' = "all"
    /\ UNCHANGED <<S, NUM_PICKS, self, last_inside, pick, opened, ret, rets, result>>
    /\ UNCHANGED simVars

\* all() takes the next index and calls run_single, which builds its
\* strategy and sets last_inside = None.
RunSingleEnter ==
    /\ pc = "all"
    /\ index < NUM_BOXES
    /\ \E q \in Draws(S) : self' = new(S, index, q)
    /\ last_inside' = None
    /\ pick' = 0
    /\ opened' = << >>
    /\ ret' = None
    /\ pc' = "loop"
    /\ UNCHANGED <<S, NUM_PICKS, boxes, index, rets, result>>
    /\ UNCHANGED simVars

\* One iteration of run_single's loop.
LoopIteration ==
    /\ pc = "loop"
    /\ loop_continues(pick, NUM_PICKS)
    /\ LET it == Iteration(S, self, last_inside, index, boxes) IN
        /\ pick' = pick + 1
        /\ opened' = IF it.panic = "unwrap" THEN opened ELSE Append(opened, it.next_index)
        /\ self' = it.self
        /\ last_inside' = it.last_inside
        /\ ret' = IF it.panic = "none" /\ it.found THEN Some(TRUE) ELSE ret
        /\ pc' = IF it.panic # "none" THEN it.panic
                 ELSE IF it.found THEN "returned" ELSE "loop"
    /\ UNCHANGED <<S, NUM_PICKS, boxes, index, rets, result>>
    /\ UNCHANGED simVars

\* The loop ends without a return: run_single returns false.
LoopEnd ==
    /\ pc = "loop"
    /\ ~loop_continues(pick, NUM_PICKS)
    /\ ret' = Some(FALSE)
    /\ pc' = "returned"
    /\ UNCHANGED <<S, NUM_PICKS, boxes, index, self, last_inside, pick, opened, rets, result>>
    /\ UNCHANGED simVars

\* all() got true from the closure and goes on to the next index.
AllContinue ==
    /\ pc = "returned"
    /\ ~all_stops(ret[1])
    /\ rets' = Append(rets, ret[1])
    /\ index' = index + 1
    /\ self' = NoStrategy(S)
    /\ pc' = "all"
    /\ UNCHANGED <<S, NUM_PICKS, boxes, last_inside, pick, opened, ret, result>>
    /\ UNCHANGED simVars

\* all() got false from the closure and returns false: run_all returns it.
AllShortCircuit ==
    /\ pc = "returned"
    /\ all_stops(ret[1])
    /\ rets' = Append(rets, ret[1])
    /\ result' = Some(FALSE)
    /\ self' = NoStrategy(S)
    /\ pc' = "done"
    /\ UNCHANGED <<S, NUM_PICKS, boxes, index, last_inside, pick, opened, ret>>
    /\ UNCHANGED simVars

\* The range is exhausted: all() returns true and run_all returns it.
AllTrue ==
    /\ pc = "all"
    /\ index >= NUM_BOXES
    /\ result' = Some(TRUE)
    /\ pc' = "done"
    /\ UNCHANGED <<S, NUM_PICKS, boxes, index, self, last_inside, pick, opened, ret, rets>>
    /\ UNCHANGED simVars

Next ==
    \/ MakeBoxes
    \/ RunSingleEnter
    \/ LoopIteration
    \/ LoopEnd
    \/ AllContinue
    \/ AllShortCircuit
    \/ AllTrue

Spec == Init /\ [][Next]_vars

\* A trial never blocks or suspends: it runs to completion.
FairSpec == Spec /\ WF_vars(Next)

----------------------------------------------------------------------------
\* run_sim: NUM_TRIES closures in parallel

\* The closure's call of run_all, on boxes and strategies of its own.
TrialRun(t) ==
    /\ sim.pc = "for_each"
    /\ trial[t].pc = "pending"
    /\ \E r \in run_all_outcomes(S, NUM_PICKS) :
          trial' = [trial EXCEPT ![t] =
                       [pc |-> IF r.panic # "none" THEN "panic" ELSE "ran", ok |-> r.ret]]
    /\ UNCHANGED <<S, NUM_PICKS, success, sim>>
    /\ UNCHANGED trialVars

\* success.fetch_add(1, Ordering::Relaxed): one atomic read-modify-write.
fetch_add(v) == v + 1

\* run_all returned true: the closure adds one to the counter and ends.
FetchAdd(t) ==
    /\ trial[t].pc = "ran"
    /\ trial[t].ok
    /\ success' = fetch_add(success)
    /\ trial' = [trial EXCEPT ![t].pc = "done"]
    /\ UNCHANGED <<S, NUM_PICKS, sim>>
    /\ UNCHANGED trialVars

\* run_all returned false: the closure ends.
ClosureEnd(t) ==
    /\ trial[t].pc = "ran"
    /\ ~trial[t].ok
    /\ trial' = [trial EXCEPT ![t].pc = "done"]
    /\ UNCHANGED <<S, NUM_PICKS, success, sim>>
    /\ UNCHANGED trialVars

\* Variant: the counter is read as soon as one closure has ended.
joined_any == \E t \in Tasks : trial[t].pc \in {"done", "panic"}

\* for_each returns once every closure has ended.
joined == \A t \in Tasks : trial[t].pc \in {"done", "panic"}

\* for_each has returned (or resumed a closure's panic): success.load(..)
\* is run_sim's return value.
Return ==
    /\ sim.pc = "for_each"
    /\ joined
    /\ sim' = IF \E t \in Tasks : trial[t].pc = "panic"
              THEN [pc |-> "panic", ret |-> None]
              ELSE [pc |-> "returned", ret |-> Some(success)]
    /\ UNCHANGED <<S, NUM_PICKS, trial, success>>
    /\ UNCHANGED trialVars

SimNext ==
    \/ \E t \in Tasks : TrialRun(t)
    \/ \E t \in Tasks : FetchAdd(t)
    \/ \E t \in Tasks : ClosureEnd(t)
    \/ Return

SimSpec == Init /\ [][SimNext]_vars

\* The pool runs every closure to its end.
FairSimSpec == SimSpec /\ WF_vars(SimNext)

----------------------------------------------------------------------------
\* Properties

Indices == 0..(NUM_BOXES - 1)
Budgets == 1..MaxPicks
Ok(b) == [panic |-> "none", ret |-> b]

\* No element occurs twice.
Distinct(v) == \A a \in 1..Len(v) : \A b \in 1..Len(v) : a # b => v[a] # v[b]

\* v has NUM_BOXES elements and holds every value of [0, NUM_BOXES) once.
IsPermutation(v) ==
    /\ Len(v) = NUM_BOXES
    /\ \A x \in Indices : Cardinality({k \in 1..Len(v) : v[k] = x}) = 1

\* The box reached from box i by following the contents k times.
RECURSIVE Follow(_, _, _)
Follow(bx, i, k) == IF k = 0 THEN i ELSE Follow(bx, At(bx, i), k - 1)

\* i lies on a cycle of bx of length at most p.
OnCycleWithin(bx, i, p) == \E k \in 1..p : Follow(bx, i, k) = i

\* i's cycle has length exactly k.
CycleLength(bx, i, k) == Follow(bx, i, k) = i /\ \A j \in 1..(k - 1) : Follow(bx, i, j) # i

BoxesMade == pc # "run_all"
\* run_all has its boxes and is about to run the first searcher.
BoxesFresh == pc = "all" /\ index = 0
InRunSingle == pc \in {"loop", "returned"}
Searching == pc = "loop"
Found == pc = "returned" /\ ret = Some(TRUE)
Exhausted == pc = "returned" /\ ret = Some(FALSE)

\* C1: under LoopStrategy run_single returns true exactly when the searcher's
\* index lies on a cycle of boxes of length <= the pick budget, for every
\* permutation, index and budget; the result is determined by (boxes, index,
\* budget), both for the run in progress and for every other index and budget.
C1_LoopIffCycle ==
    /\ (S = "Loop" /\ pc = "returned")
          => ret = Some(OnCycleWithin(boxes, index, NUM_PICKS))
    /\ BoxesFresh =>
          \A i \in Indices : \A p \in Budgets :
              run_single_outcomes("Loop", i, boxes, p) = {Ok(OnCycleWithin(boxes, i, p))}

\* A Loop searcher on a cycle of length exactly its budget (>= 2) found itself
\* on the last pick.
C1_Witness ==
    /\ S = "Loop" /\ Found
    /\ pick = NUM_PICKS /\ pick >= 2
    /\ CycleLength(boxes, index, pick)

\* A Loop searcher on a cycle longer than its budget failed.
C1_WitnessFail ==
    /\ S = "Loop" /\ Exhausted
    /\ ~OnCycleWithin(boxes, index, NUM_PICKS)

\* C2: run_all's return value, reached by stopping at the first failing
\* searcher, is the conjunction of run_single over all indices: whatever the
\* searchers that were not run would have returned, and with the searchers
\* that were run returning what run_single can return for them (each return
\* value is checked when it is made and when all() records it).
C2_ConjunctionLaw ==
    /\ pc = "returned" => Ok(ret[1]) \in run_single_outcomes(S, index, boxes, NUM_PICKS)
    /\ (pc \in {"all", "done"} /\ rets # << >>) =>
          Ok(rets[Len(rets)]) \in run_single_outcomes(S, Len(rets) - 1, boxes, NUM_PICKS)
    /\ pc = "done" =>
          \A f \in [Indices -> BOOLEAN] :
              (/\ \A i \in Indices : i < Len(rets) => f[i] = rets[i + 1]
               /\ \A i \in Indices : i >= Len(rets) =>
                      Ok(f[i]) \in run_single_outcomes(S, i, boxes, NUM_PICKS))
              => result = Some(\A i \in Indices : f[i])

\* run_all stopped at a failing searcher before the last one, and a searcher
\* it never ran could have succeeded.
C2_Witness ==
    /\ pc = "done" /\ result = Some(FALSE)
    /\ Len(rets) < NUM_BOXES
    /\ \E i \in Indices :
          i >= Len(rets) /\ Ok(TRUE) \in run_single_outcomes(S, i, boxes, NUM_PICKS)

\* run_all ran every searcher and returned true.
C2_WitnessTrue == pc = "done" /\ result = Some(TRUE) /\ Len(rets) = NUM_BOXES

\* C3: in every interleaving of the closures the counter equals the number of
\* closures that have added to it (none lost, none twice), and run_sim returns
\* only once every closure has ended, with the number of trials whose run_all
\* returned true.
C3_CountIsExact ==
    /\ success = Cardinality({t \in Tasks : trial[t].pc = "done" /\ trial[t].ok})
    /\ sim.pc = "returned" =>
          /\ \A t \in Tasks : trial[t].pc = "done"
          /\ sim.ret = Some(Cardinality({t \in Tasks : trial[t].ok}))

\* run_sim returned NUM_TRIES: every trial succeeded.
C3_Witness == sim.pc = "returned" /\ sim.ret = Some(NUM_TRIES)

\* run_sim returned with some trials successful and some not.
C3_WitnessMixed ==
    /\ sim.pc = "returned"
    /\ \E t \in Tasks : trial[t].ok
    /\ \E t \in Tasks : ~trial[t].ok

\* C4: the box indices one RandomStrategy searcher got from next_index are
\* pairwise distinct, and what next_index returns and leaves behind does not
\* depend on the last_inside passed.
C4_RandomNoRepeat ==
    S = "Random" =>
        /\ Distinct(opened)
        /\ Searching =>
              \A v \in Indices :
                  /\ next_index(S, self, Some(v)) = next_index(S, self, None)
                  /\ next_index(S, self, None) = next_index(S, self, last_inside)

\* A RandomStrategy searcher with budget NUM_BOXES made NUM_BOXES calls.
C4_Witness ==
    /\ S = "Random" /\ NUM_PICKS = NUM_BOXES
    /\ InRunSingle /\ Len(opened) = NUM_BOXES

\* C5: whatever the shuffle draws, make_boxes returns NUM_BOXES elements
\* holding each value of [0, NUM_BOXES) exactly once: run_all's boxes, and
\* a RandomStrategy's queue together with what was popped from it.
C5_Bijection ==
    /\ \A b \in make_boxes : IsPermutation(b)
    /\ BoxesMade => IsPermutation(boxes)
    /\ (S = "Random" /\ InRunSingle) =>
          IsPermutation(self.try_queue \o [k \in 1..Len(opened) |-> opened[Len(opened) + 1 - k]])

\* run_all holds boxes that the shuffle has rearranged.
C5_Witness == BoxesMade /\ boxes # Collect(NUM_BOXES) /\ InRunSingle

\* make_boxes can return every permutation.
C5_AllReached ==
    \A b \in [1..NUM_BOXES -> Indices] : IsPermutation(b) => b \in make_boxes

\* C6: for run_all's permutation, every searcher index and budgets p1 <= p2,
\* a LoopStrategy run_single that returns true with p1 returns true with p2;
\* in particular a Loop searcher that found itself does so with every larger
\* budget.
C6_BudgetMonotone ==
    /\ BoxesFresh =>
          \A i \in Indices : \A p1 \in Budgets : \A p2 \in Budgets :
              (p1 <= p2 /\ run_single("Loop", i, boxes, p1, << >>) = Ok(TRUE))
                  => run_single("Loop", i, boxes, p2, << >>) = Ok(TRUE)
    /\ (S = "Loop" /\ Found) =>
          \A p2 \in Budgets :
              NUM_PICKS <= p2 => run_single("Loop", index, boxes, p2, << >>) = Ok(TRUE)

\* A Loop searcher found itself on the last pick of a budget (>= 2) that is
\* not the largest, and fails with a smaller one.
C6_Witness ==
    /\ S = "Loop" /\ Found
    /\ pick = NUM_PICKS /\ pick >= 2 /\ NUM_PICKS < MaxPicks
    /\ run_single("Loop", index, boxes, NUM_PICKS - 1, << >>) = Ok(FALSE)
    /\ run_single("Loop", index, boxes, NUM_PICKS + 1, << >>) = Ok(TRUE)

\* The searcher's run: its picks never exceed the budget; while Searching no
\* opened box held its index; Found means the last opened box, and no
\* earlier one, held it; Exhausted means exactly NUM_PICKS boxes were opened
\* and none held it; and no call panicked.
C7_SearcherStates ==
    /\ pc \notin {"unwrap", "bounds"}
    /\ InRunSingle =>
          /\ Len(opened) = pick
          /\ pick <= NUM_PICKS
          /\ \A k \in 1..(pick - 1) : At(boxes, opened[k]) # index
    /\ Searching => ret = None /\ \A k \in 1..pick : At(boxes, opened[k]) # index
    /\ pc = "returned" => ret \in {Some(TRUE), Some(FALSE)}
    /\ Found => pick >= 1 /\ At(boxes, opened[pick]) = index
    /\ Exhausted => pick = NUM_PICKS /\ At(boxes, opened[pick]) # index

\* Once run_single has returned, this searcher makes no further pick and its
\* return value stays.
C7_TerminalStep ==
    pc = "returned" => (pc' \in {"all", "done"} /\ opened' = opened /\ ret' = ret /\ pick' = pick)

\* C7: every searcher's run starts Searching and ends in exactly one of Found
\* (as soon as a pick reveals its index, with no pick after it) and Exhausted
\* (after exactly NUM_PICKS picks, none of which revealed it), after at most
\* NUM_PICKS picks; and every trial terminates.
C7_SearcherTerminates ==
    /\ []C7_SearcherStates
    /\ [][C7_TerminalStep]_vars
    /\ (Searching ~> (Found \/ Exhausted))
    /\ <>(pc = "done")

\* A searcher is Exhausted: NUM_PICKS picks, none revealing its index.
C7_Witness == Exhausted /\ pick = NUM_PICKS /\ Len(opened) = NUM_PICKS /\ NUM_PICKS >= 2

\* A searcher is Found before its budget is used up.
C7_WitnessFound == Found /\ pick >= 2 /\ pick < NUM_PICKS

\* The experiment terminates: run_sim returns.
C7_SimTerminates == <>(sim.pc = "returned")

\* C8: with NUM_PICKS <= NUM_BOXES, try_queue is non-empty whenever a
\* RandomStrategy searcher calls next_index, and the unwrap never panics.
C8_QueueNeverEmpty ==
    (S = "Random" /\ NUM_PICKS <= NUM_BOXES) =>
        /\ pc # "unwrap"
        /\ (Searching /\ loop_continues(pick, NUM_PICKS)) =>
              /\ self.try_queue # << >>
              /\ next_index(S, self, last_inside).panic = "none"

\* A RandomStrategy searcher with budget NUM_BOXES popped the last element
\* of its queue.
C8_Witness ==
    /\ S = "Random" /\ NUM_PICKS = NUM_BOXES
    /\ Found /\ pick = NUM_BOXES /\ self.try_queue = << >>

\* The same without the bound on NUM_PICKS: the queue holds every box, so
\* the searcher finds its index before the queue is empty.
C8_AnyBudget ==
    S = "Random" =>
        /\ pc # "unwrap"
        /\ (Searching /\ loop_continues(pick, NUM_PICKS)) => self.try_queue # << >>

\* C9: for both strategies every index next_index returns during run_single
\* lies in [0, NUM_BOXES): the lookup boxes[next_index] is in bounds.
C9_IndexInBounds ==
    /\ pc # "bounds"
    /\ \A k \in 1..Len(opened) : opened[k] \in Indices /\ InBounds(boxes, opened[k])
    /\ (Searching /\ loop_continues(pick, NUM_PICKS)) =>
          LET r == next_index(S, self, last_inside) IN
          r.panic = "none" => (r.ret \in Indices /\ InBounds(boxes, r.ret))

\* A Loop searcher, after its first pick, opened the last box.
C9_Witness ==
    /\ S = "Loop" /\ InRunSingle
    /\ Len(opened) >= 2 /\ opened[Len(opened)] = NUM_BOXES - 1

\* A Random searcher opened the last box.
C9_WitnessRandom ==
    /\ S = "Random" /\ InRunSingle
    /\ Len(opened) >= 2 /\ opened[Len(opened)] = NUM_BOXES - 1

\* C10: under LoopStrategy the first box a searcher opens is its own index,
\* each later one is the contents of the box opened before it, and no box is
\* opened twice, for every permutation and budget.
C10_LoopChain ==
    (S = "Loop" /\ InRunSingle) =>
        /\ Len(opened) >= 1 => opened[1] = index
        /\ \A k \in 2..Len(opened) : opened[k] = At(boxes, opened[k - 1])
        /\ Distinct(opened)

\* A Loop searcher followed a cycle through every box and found itself with
\* picks to spare.
C10_Witness ==
    /\ S = "Loop" /\ Found
    /\ Len(opened) = NUM_BOXES /\ NUM_PICKS > NUM_BOXES

====
